---- MODULE Spec2Model ----
(***************************************************************************)
(* Session registry and catalog of kimi-cli                                *)
(*   src/src/kimi_cli/metadata.py          registry document, load_session,*)
(*                                         _get_session_info, list_sessions*)
(*   src/src/kimi_cli/ui/shell/metacmd.py  the shell's meta commands       *)
(*                                                                         *)
(* Three specifications share the variables:                               *)
(*   InfoSpec   _get_session_info applied to every bounded session file    *)
(*   Spec       the registry document and the namespace directories under  *)
(*              list_sessions / load_session and file creation/deletion    *)
(*   ShellSpec  the shell application running the clear, compact and       *)
(*              session commands in its working directory                  *)
(***************************************************************************)
EXTENDS Integers, Sequences, FiniteSets, TLC

VARIABLES
    metaDoc,      \* the metadata document kimi.json: Absent or a JSON value
    fs,           \* namespace directory -> file stem -> session file or NoFile
    out,          \* what the last call of the catalog API did and returned
    sessionFile,  \* InfoSpec: the session file handed to _get_session_info
    info,         \* InfoSpec: the summary _get_session_info returned for it
    soul,         \* ShellSpec: app.soul (its _context and its _runtime.session)
    cmd,          \* ShellSpec: the running meta command's frame (pc and locals)
    trace         \* ShellSpec: what the last finished meta command did

vars == <<metaDoc, fs, out, sessionFile, info, soul, cmd, trace>>

(***************************************************************************)
(* Values                                                                  *)
(***************************************************************************)

\* Python's `str | None`: None, or a string (a tuple of characters; the empty
\* string is a value different from None).
None == [some |-> FALSE, v |-> <<>>]

Some(s) == [some |-> TRUE, v |-> s]

\* str.startswith / str.endswith
StartsWith(t, prefix) ==
    /\ Len(t) >= Len(prefix)
    /\ SubSeq(t, 1, Len(prefix)) = prefix

EndsWith(t, suffix) ==
    /\ Len(t) >= Len(suffix)
    /\ SubSeq(t, Len(t) - Len(suffix) + 1, Len(t)) = suffix

\* str.strip(): leading and trailing whitespace removed
IsSpace(c) == c \in {" ", "\t", "\n"}

RECURSIVE LStrip(_)
LStrip(t) ==
    IF t = <<>> THEN <<>>
    ELSE IF IsSpace(Head(t)) THEN LStrip(Tail(t))
    ELSE t

RECURSIVE RStrip(_)
RStrip(t) ==
    IF t = <<>> THEN <<>>
    ELSE IF IsSpace(t[Len(t)]) THEN RStrip(SubSeq(t, 1, Len(t) - 1))
    ELSE t

Strip(t) == RStrip(LStrip(t))

\* text[:n]
Truncate(t, n) == SubSeq(t, 1, IF Len(t) < n THEN Len(t) ELSE n)

SystemOpen == <<"<", "s", "y", "s", "t", "e", "m", ">">>

SystemClose == <<"<", "/", "s", "y", "s", "t", "e", "m", ">">>

\* kimi_cli.soul.message.system(text): "<system>text</system>"
SystemWrap(t) == SystemOpen \o t \o SystemClose

(***************************************************************************)
(* Session files: one record per line                                      *)
(***************************************************************************)

\* The content field of a decoded record.
NoContent == [type |-> "missing", text |-> <<>>, parts |-> <<>>]

StrContent(t) == [type |-> "str", text |-> t, parts |-> <<>>]

ListContent(ps) == [type |-> "list", text |-> <<>>, parts |-> ps]

\* One element of a list content: a string, or an object with or without a
\* "text" field.
StrPart(t) == [type |-> "str", hasText |-> FALSE, text |-> t]

TextPart(t) == [type |-> "dict", hasText |-> TRUE, text |-> t]

OtherPart == [type |-> "dict", hasText |-> FALSE, text |-> <<>>]

\* A physical line of a session file.
\*   blank  only whitespace: line.strip() is empty
\*   bad    json.loads(line) raises, or yields a value that is no object so
\*          that data.get raises
\*   obj    a JSON object; role is None when the object has no "role"
BlankLine == [kind |-> "blank", role |-> None, content |-> NoContent]

BadLine == [kind |-> "bad", role |-> None, content |-> NoContent]

Record(role, content) == [kind |-> "obj", role |-> role, content |-> content]

RoleUser == Some(<<"u", "s", "e", "r">>)

RoleAssistant == Some(<<"a", "s", "s", "i", "s", "t", "a", "n", "t">>)

RoleTool == Some(<<"t", "o", "o", "l">>)

RoleCheckpoint == Some(<<"_", "c", "h", "e", "c", "k", "p", "o", "i", "n", "t">>)

TextHi == <<"h", "i">>

TextHello == <<"h", "e", "l", "l", "o">>

UserHi == Record(RoleUser, StrContent(TextHi))

UserSystem == Record(RoleUser, StrContent(SystemWrap(<<"x">>)))

UserParts == Record(RoleUser, ListContent(<<TextPart(TextHello)>>))

AssistantOk == Record(RoleAssistant, StrContent(<<"o", "k">>))

ToolResult == Record(RoleTool, StrContent(<<"r">>))

Checkpoint == Record(RoleCheckpoint, NoContent)

NoRole == Record(None, NoContent)

\* " hi": a text with leading whitespace.
TextPadded == <<" ", "h", "i">>

\* Characters of the long text, two more than the preview is cut to.
LongLen == 52

\* A text longer than the preview width.
TextLong == [k \in 1..LongLen |-> "a"]

UserPadded == Record(RoleUser, StrContent(TextPadded))

UserLong == Record(RoleUser, StrContent(TextLong))

\* A user record whose content is the empty string.
UserEmpty == Record(RoleUser, StrContent(<<>>))

\* A user record whose first content part is an object without "text".
UserImage == Record(RoleUser, ListContent(<<OtherPart, TextPart(TextHi)>>))

\* A user record whose first content part is a plain string.
UserStrPart == Record(RoleUser, ListContent(<<StrPart(TextHello)>>))

\* The lines session files are made of.
Lines ==
    {UserHi, UserSystem, UserParts, UserPadded, UserLong, UserEmpty,
     UserImage, UserStrPart, AssistantOk, ToolResult, Checkpoint,
     NoRole, BlankLine, BadLine}

\* A session file: its lines and its last-modified time (st_mtime).
SessionFile(lines, mtime) == [lines |-> lines, mtime |-> mtime]

(***************************************************************************)
(* _get_session_info                                                       *)
(***************************************************************************)

\* Width the preview is cut to (text[:50]).
PreviewWidth == 50

\* The info dict before the file is read.
InitialInfo(file) ==
    [timestamp |-> file.mtime,
     num_messages |-> 0,
     num_checkpoints |-> 0,
     first_message |-> None]

\* `not content`: a missing or null content, "" and [] are falsy.
Falsy(content) ==
    \/ content.type = "missing"
    \/ content.type = "str" /\ content.text = <<>>
    \/ content.type = "list" /\ content.parts = <<>>

\* The text of a content: the string itself, or the first element of a list
\* when that is a string or an object with a "text" field; None otherwise.
ContentText(content) ==
    IF content.type = "str" THEN Some(content.text)
    ELSE IF content.type = "list" /\ Len(content.parts) > 0
    THEN LET first_part == content.parts[1] IN
         IF first_part.type = "str" THEN Some(first_part.text)
         ELSE IF first_part.type = "dict" /\ first_part.hasText
         THEN Some(first_part.text)
         ELSE None
    ELSE None

\* Injected system messages are skipped.
IsSystemText(text) == StartsWith(text, SystemOpen) /\ EndsWith(text, SystemClose)

PreviewOfAnyText(content) ==
    IF Falsy(content) THEN None
    ELSE LET text == ContentText(content) IN
         IF ~text.some THEN None
         ELSE Some(Strip(Truncate(text.v, PreviewWidth)))

\* The preview taken from the content of a user record, None when the record
\* gives none (each `continue` of the preview block).
PreviewOf(content) ==
    IF Falsy(content) THEN None
    ELSE LET text == ContentText(content) IN
         IF ~text.some THEN None
         ELSE IF IsSystemText(text.v) THEN None
         ELSE Some(Strip(Truncate(text.v, PreviewWidth)))

IsMessageRoleToo(role) == role \in {RoleUser, RoleAssistant, RoleTool}

\* role == "user" or role == "assistant"
IsMessageRole(role) == role \in {RoleUser, RoleAssistant}

\* The body of the loop for one decoded record.
CountRecord(inf, data) ==
    IF data.role = RoleCheckpoint
    THEN [inf EXCEPT !.num_checkpoints = @ + 1]
    ELSE IF IsMessageRole(data.role)
    THEN LET counted == [inf EXCEPT !.num_messages = @ + 1] IN
         IF ~inf.first_message.some /\ data.role = RoleUser
         THEN [counted EXCEPT !.first_message = PreviewOf(data.content)]
         ELSE counted
    ELSE inf

ExceptInfoReset(start, partial) == start

\* `except Exception`: the warning is logged and the info dict is returned as
\* the loop left it.
ExceptInfo(start, partial) == partial

\* The loop over the lines from line i on; a line that cannot be decoded
\* raises out of the loop into the except clause.
RECURSIVE ScanLines(_, _, _, _)
ScanLines(start, lines, i, inf) ==
    IF i > Len(lines) THEN inf
    ELSE IF lines[i].kind = "blank" THEN ScanLines(start, lines, i + 1, inf)
    ELSE IF lines[i].kind = "bad" THEN ExceptInfo(start, inf)
    ELSE ScanLines(start, lines, i + 1, CountRecord(inf, lines[i]))

GetSessionInfo(file) ==
    ScanLines(InitialInfo(file), file.lines, 1, InitialInfo(file))

(***************************************************************************)
(* The metadata document and the namespace directories                     *)
(***************************************************************************)

WdA == <<"/", "a">>

WdB == <<"/", "b">>

\* The working directories.
Paths == {WdA, WdB}

\* md5(path).hexdigest(): the name of the namespace directory of a path.
Md5(path) == <<"md5", path>>

Namespaces == {Md5(p) : p \in Paths}

S1 == <<"s", "1">>

S2 == <<"s", "2">>

\* The backup a revert leaves of session s1: <session-id>_<n>.
S1Backup == <<"s", "1", "_", "1">>

\* The file stems (names without .jsonl) found in a namespace directory.
Stems == {S1, S2, S1Backup}

\* Most session files the namespace directories hold together.
MaxFiles == 2

Times == {1, 2}

LogEmpty == <<>>

LogChat == <<Checkpoint, UserHi, AssistantOk>>

LogDamaged == <<UserHi, BadLine, AssistantOk>>

\* The session files the namespaces are given: an older intact one, and a
\* damaged and an empty one of the same, later time.
SampleFiles ==
    {SessionFile(LogChat, 1), SessionFile(LogDamaged, 2), SessionFile(LogEmpty, 2)}

\* A directory slot is <<>> (no such file) or <<file>>.
NoFile == <<>>

EmptyFs == [ns \in Namespaces |-> [stem \in Stems |-> NoFile]]

Exists(dirs, ns, stem) == dirs[ns][stem] # NoFile

FileCount(dirs) ==
    Cardinality({x \in Namespaces \X Stems : Exists(dirs, x[1], x[2])})

\* WorkDirMeta(path, last_session_id)
WorkDirMeta(path, last_session_id) ==
    [path |-> path, last_session_id |-> last_session_id]

\* Metadata(): the registry with no record.
EmptyMetadata == [work_dirs |-> <<>>]

JString(s) == [t |-> "string", s |-> s]

JNull == [t |-> "null", s |-> <<>>]

ModelDumpNoneAsEmpty(metadata) ==
    [work_dirs |->
        [i \in 1..Len(metadata.work_dirs) |->
            LET wd == metadata.work_dirs[i] IN
            [path |-> JString(wd.path),
             last_session_id |->
                IF wd.last_session_id.some
                THEN JString(wd.last_session_id.v)
                ELSE JString(<<>>)]]]

\* metadata.model_dump() written by json.dump
ModelDump(metadata) ==
    [work_dirs |->
        [i \in 1..Len(metadata.work_dirs) |->
            LET wd == metadata.work_dirs[i] IN
            [path |-> JString(wd.path),
             last_session_id |->
                IF wd.last_session_id.some
                THEN JString(wd.last_session_id.v)
                ELSE JNull]]]

\* Metadata(**json.load(f))
ParseMetadata(data) ==
    [work_dirs |->
        [i \in 1..Len(data.work_dirs) |->
            LET wd == data.work_dirs[i] IN
            WorkDirMeta(wd.path.s,
                        IF wd.last_session_id.t = "null"
                        THEN None
                        ELSE Some(wd.last_session_id.s))]]

\* The metadata document is <<>> (no kimi.json) or <<document>>.
Absent == <<>>

load_metadata(doc) ==
    IF doc = Absent THEN EmptyMetadata ELSE ParseMetadata(doc[1])

\* The document save_metadata leaves on disk.
save_metadata(metadata) == <<ModelDump(metadata)>>

\* next((i for wd at i if wd.path == str(work_dir)), None): the index of the
\* first record of the path, 0 when there is none.
FindWorkDir(metadata, work_dir) ==
    LET hits == {i \in 1..Len(metadata.work_dirs) :
                    metadata.work_dirs[i].path = work_dir}
    IN IF hits = {} THEN 0
       ELSE CHOOSE i \in hits : \A j \in hits : i <= j

\* The last_session_id the document records for a path (None without record).
LastSessionId(doc, work_dir) ==
    LET metadata == load_metadata(doc)
        i == FindWorkDir(metadata, work_dir)
    IN IF i = 0 THEN None ELSE metadata.work_dirs[i].last_session_id

Registered(doc, work_dir) == FindWorkDir(load_metadata(doc), work_dir) # 0

\* find_or_create(registry, path): the record of the path, appended when absent.
find_or_create(metadata, work_dir) ==
    IF FindWorkDir(metadata, work_dir) # 0 THEN metadata
    ELSE [work_dirs |-> Append(metadata.work_dirs, WorkDirMeta(work_dir, None))]

(***************************************************************************)
(* load_session                                                            *)
(***************************************************************************)

\* work_dir_meta.sessions_dir / f"{session_id}.jsonl"
HistoryFile(work_dir, session_id) == [dir |-> Md5(work_dir), stem |-> session_id]

\* Session(id=..., work_dir=..., history_file=...)
Session(id, work_dir, history_file) ==
    [id |-> id, work_dir |-> work_dir, history_file |-> history_file]

\* What a call of load_session returns (<<>> for None, else <<session>>), the
\* document it leaves on disk and whether it called save_metadata.
Loaded(session, doc, saved) == [session |-> session, doc |-> doc, saved |-> saved]

\* metadata with work_dirs[i].last_session_id = session_id
WithLastSession(metadata, i, session_id) ==
    [metadata EXCEPT !.work_dirs[i].last_session_id = Some(session_id)]

load_session_unchecked(doc, dirs, work_dir, session_id) ==
    LET metadata == load_metadata(doc)
        i == FindWorkDir(metadata, work_dir)
    IN IF i = 0 THEN Loaded(<<>>, doc, FALSE)
       ELSE LET saved == save_metadata(WithLastSession(metadata, i, session_id))
            IN IF ~Exists(dirs, Md5(metadata.work_dirs[i].path), session_id)
               THEN Loaded(<<>>, saved, TRUE)
               ELSE Loaded(<<Session(session_id, work_dir,
                                     HistoryFile(work_dir, session_id))>>,
                           saved, TRUE)

load_session(doc, dirs, work_dir, session_id) ==
    LET metadata == load_metadata(doc)
        i == FindWorkDir(metadata, work_dir)
    IN IF i = 0 THEN Loaded(<<>>, doc, FALSE)
       ELSE IF ~Exists(dirs, Md5(metadata.work_dirs[i].path), session_id)
       THEN Loaded(<<>>, doc, FALSE)
       ELSE Loaded(<<Session(session_id, work_dir,
                             HistoryFile(work_dir, session_id))>>,
                   save_metadata(WithLastSession(metadata, i, session_id)),
                   TRUE)

(***************************************************************************)
(* list_sessions                                                           *)
(***************************************************************************)

IsBackupPrefix(stem) == Len(stem) > 0 /\ stem[1] = "_"

\* "_" in session_file.stem
IsBackup(stem) == \E i \in 1..Len(stem) : stem[i] = "_"

\* The orders in which sessions_dir.glob("*.jsonl") may yield the files of a
\* namespace directory: the order is the file system's.
GlobOrders(dirs, ns) ==
    LET present == {stem \in Stems : Exists(dirs, ns, stem)}
        n == Cardinality(present)
    IN {g \in [1..n -> present] : \A i, j \in 1..n : g[i] = g[j] => i = j}

IsCurrentContained(session_id, last_session_id) ==
    /\ last_session_id.some
    /\ \E k \in 0..Len(last_session_id.v) :
          k + Len(session_id) <= Len(last_session_id.v)
          /\ SubSeq(last_session_id.v, k + 1, k + Len(session_id)) = session_id

IsCurrentWhenSet(session_id, last_session_id) == last_session_id.some

\* session_id == work_dir_meta.last_session_id
IsCurrent(session_id, last_session_id) == Some(session_id) = last_session_id

\* (session_id, session_file, info) with info["is_current"] set
Summary(dirs, work_dir, stem, last_session_id) ==
    LET inf == GetSessionInfo(dirs[Md5(work_dir)][stem][1]) IN
    [session_id |-> stem,
     session_file |-> HistoryFile(work_dir, stem),
     info |-> [timestamp |-> inf.timestamp,
               num_messages |-> inf.num_messages,
               num_checkpoints |-> inf.num_checkpoints,
               first_message |-> inf.first_message,
               is_current |-> IsCurrent(stem, last_session_id)]]

KeepsDecodable(dirs, work_dir, stem) ==
    /\ ~IsBackup(stem)
    /\ \A k \in 1..Len(dirs[Md5(work_dir)][stem][1].lines) :
          dirs[Md5(work_dir)][stem][1].lines[k].kind # "bad"

\* Whether the loop appends a summary for the file.
Keeps(dirs, work_dir, stem) == ~IsBackup(stem)

\* The loop over the globbed files from file i on.
RECURSIVE Collect(_, _, _, _, _)
Collect(dirs, work_dir, last_session_id, glob, i) ==
    IF i > Len(glob) THEN <<>>
    ELSE IF ~Keeps(dirs, work_dir, glob[i])
    THEN Collect(dirs, work_dir, last_session_id, glob, i + 1)
    ELSE <<Summary(dirs, work_dir, glob[i], last_session_id)>>
         \o Collect(dirs, work_dir, last_session_id, glob, i + 1)

\* One summary put into a list sorted by timestamp descending, behind the
\* summaries of the same timestamp (list.sort is stable, also with reverse).
RECURSIVE InsertSorted(_, _)
InsertSorted(sorted, x) ==
    IF sorted = <<>> THEN <<x>>
    ELSE IF Head(sorted).info.timestamp >= x.info.timestamp
    THEN <<Head(sorted)>> \o InsertSorted(Tail(sorted), x)
    ELSE <<x>> \o sorted

SortKeepsGlobOrder(sessions) == sessions

\* sessions.sort(key=lambda x: x[2]["timestamp"], reverse=True)
RECURSIVE SortByTimestamp(_)
SortByTimestamp(sessions) ==
    IF sessions = <<>> THEN <<>>
    ELSE InsertSorted(SortByTimestamp(SubSeq(sessions, 1, Len(sessions) - 1)),
                      sessions[Len(sessions)])

list_sessions_of_path(doc, dirs, work_dir, glob) ==
    LET metadata == find_or_create(load_metadata(doc), work_dir)
        i == FindWorkDir(metadata, work_dir)
    IN SortByTimestamp(
           Collect(dirs, metadata.work_dirs[i].path,
                   metadata.work_dirs[i].last_session_id, glob, 1))

\* list_sessions(work_dir) when the directory is globbed in the order glob.
list_sessions(doc, dirs, work_dir, glob) ==
    LET metadata == load_metadata(doc)
        i == FindWorkDir(metadata, work_dir)
    IN IF i = 0 THEN <<>>
       ELSE SortByTimestamp(
                Collect(dirs, metadata.work_dirs[i].path,
                        metadata.work_dirs[i].last_session_id, glob, 1))

(***************************************************************************)
(* InfoSpec: _get_session_info on every session file of at most MaxLines   *)
(* lines                                                                   *)
(***************************************************************************)

\* Most lines of a session file handed to _get_session_info.
MaxLines == 3

RECURSIVE LinesUpTo(_)
LinesUpTo(n) ==
    IF n = 0 THEN {<<>>}
    ELSE LET shorter == LinesUpTo(n - 1) IN
         shorter \cup {Append(l, x) : l \in {s \in shorter : Len(s) = n - 1},
                                       x \in Lines}

\* The value of the variables a specification does not use.
Unused == <<>>

InfoInit ==
    /\ sessionFile \in {SessionFile(l, t) : l \in LinesUpTo(MaxLines), t \in Times}
    /\ info = <<>>
    /\ metaDoc = Unused
    /\ fs = Unused
    /\ out = Unused
    /\ soul = Unused
    /\ cmd = Unused
    /\ trace = Unused

\* info = _get_session_info(session_file)
Summarize ==
    /\ info = <<>>
    /\ info' = <<GetSessionInfo(sessionFile)>>
    /\ UNCHANGED <<sessionFile, metaDoc, fs, out, soul, cmd, trace>>

InfoNext == Summarize

InfoSpec == InfoInit /\ [][InfoNext]_vars

(***************************************************************************)
(* Spec: the catalog API over the registry document and the namespaces     *)
(***************************************************************************)

\* The record of a call: the operation and its arguments, what it returned
\* (sessions of list_sessions, session of load_session), whether it saved
\* the document, and the document before the call.
Call(op, work_dir, session_id, sessions, session, saved, before) ==
    [op |-> op, work_dir |-> work_dir, session_id |-> session_id,
     sessions |-> sessions, session |-> session, saved |-> saved,
     before |-> before]

NoCall == Call("none", <<>>, None, <<>>, <<>>, FALSE, Absent)

\* There is no metadata document yet, or one with no record.
Init ==
    /\ metaDoc \in {Absent, save_metadata(EmptyMetadata)}
    /\ fs = EmptyFs
    /\ out = NoCall
    /\ sessionFile = Unused
    /\ info = Unused
    /\ soul = Unused
    /\ cmd = Unused
    /\ trace = Unused

\* A session file is written in a namespace directory: a session log is
\* created or appended to, or a revert leaves a backup (any process).
WriteSessionFile(work_dir, stem, file) ==
    /\ fs[Md5(work_dir)][stem] # <<file>>
    /\ fs' = [fs EXCEPT ![Md5(work_dir)][stem] = <<file>>]
    /\ FileCount(fs') <= MaxFiles
    /\ out' = NoCall
    /\ UNCHANGED <<metaDoc, sessionFile, info, soul, cmd, trace>>

\* A session file is deleted.
DeleteSessionFile(work_dir, stem) ==
    /\ Exists(fs, Md5(work_dir), stem)
    /\ fs' = [fs EXCEPT ![Md5(work_dir)][stem] = NoFile]
    /\ out' = NoCall
    /\ UNCHANGED <<metaDoc, sessionFile, info, soul, cmd, trace>>

\* A working directory is used for the first time: its record is appended.
RegisterWorkDir(work_dir) ==
    /\ ~Registered(metaDoc, work_dir)
    /\ metaDoc' = save_metadata(find_or_create(load_metadata(metaDoc), work_dir))
    /\ out' = NoCall
    /\ UNCHANGED <<fs, sessionFile, info, soul, cmd, trace>>

\* set_last_session(registry, path, session_id) + save
SetLastSession(work_dir, session_id) ==
    /\ LET metadata == find_or_create(load_metadata(metaDoc), work_dir) IN
       metaDoc' = save_metadata(
           WithLastSession(metadata, FindWorkDir(metadata, work_dir), session_id))
    /\ metaDoc' # metaDoc
    /\ out' = NoCall
    /\ UNCHANGED <<fs, sessionFile, info, soul, cmd, trace>>

\* load_session(work_dir, session_id)
LoadSession(work_dir, session_id) ==
    /\ LET r == load_session(metaDoc, fs, work_dir, session_id) IN
       /\ metaDoc' = r.doc
       /\ out' = Call("load_session", work_dir, Some(session_id), <<>>,
                      r.session, r.saved, metaDoc)
    /\ UNCHANGED <<fs, sessionFile, info, soul, cmd, trace>>

\* list_sessions(work_dir)
ListSessions(work_dir) ==
    /\ \E glob \in GlobOrders(fs, Md5(work_dir)) :
          out' = Call("list_sessions", work_dir, None,
                      list_sessions(metaDoc, fs, work_dir, glob), <<>>, FALSE,
                      metaDoc)
    /\ UNCHANGED <<metaDoc, fs, sessionFile, info, soul, cmd, trace>>

Next ==
    \/ \E p \in Paths, stem \in Stems, file \in SampleFiles :
          WriteSessionFile(p, stem, file)
    \/ \E p \in Paths, stem \in Stems : DeleteSessionFile(p, stem)
    \/ \E p \in Paths : RegisterWorkDir(p)
    \/ \E p \in Paths, id \in Stems : SetLastSession(p, id)
    \/ \E p \in Paths, id \in Stems : LoadSession(p, id)
    \/ \E p \in Paths : ListSessions(p)

Spec == Init /\ [][Next]_vars

(***************************************************************************)
(* The context of the running conversation (kimi_cli.soul.context.Context) *)
(***************************************************************************)

\* Context(file_backend=...): a new context object, nothing restored yet.
Context(file_backend) == [file_backend |-> file_backend, entries |-> <<>>]

IsCheckpoint(entry) == entry.role = RoleCheckpoint

IsMessage(entry) == entry.role \in {RoleUser, RoleAssistant, RoleTool}

\* A line that decodes to a log entry: a message or a checkpoint marker.
IsEntry(line) == line.kind = "obj" /\ (IsCheckpoint(line) \/ IsMessage(line))

\* context.restore(): the entries of the backing file in file order, a line
\* that does not decode skipped; nothing to restore when the file is absent.
Restore(dirs, context) ==
    LET slot == dirs[context.file_backend.dir][context.file_backend.stem] IN
    IF slot = NoFile THEN context
    ELSE [context EXCEPT !.entries = SelectSeq(slot[1].lines, IsEntry)]

\* What restore() returns: whether any entries were recovered.
Restored(context) == context.entries # <<>>

\* context.history
History(context) == SelectSeq(context.entries, IsMessage)

\* context.n_checkpoints
NCheckpoints(context) == Len(SelectSeq(context.entries, IsCheckpoint))

\* The position in entries of checkpoint number k (from 0); behind the last
\* entry when there is no such checkpoint.
CheckpointPosition(entries, k) ==
    LET at == {i \in 1..Len(entries) :
                  /\ IsCheckpoint(entries[i])
                  /\ Cardinality({j \in 1..(i - 1) : IsCheckpoint(entries[j])}) = k}
    IN IF at = {} THEN Len(entries) + 1 ELSE CHOOSE i \in at : TRUE

\* context.revert_to(k): the entries before checkpoint k are carried into a
\* new backing file <stem>_1, which becomes the target of the log; the old
\* file stays as it is.
RevertTo(context, k) ==
    [file_backend |-> [context.file_backend EXCEPT !.stem = @ \o <<"_", "1">>],
     entries |-> SubSeq(context.entries, 1,
                        CheckpointPosition(context.entries, k) - 1)]

\* soul.compact_context(): the context is reverted to its start and goes on
\* from a checkpoint and the summary of what was there.
CompactContext(context) ==
    [RevertTo(context, 0) EXCEPT !.entries = <<Checkpoint, AssistantOk>>]

(***************************************************************************)
(* ShellSpec: the meta commands clear, compact and session                 *)
(***************************************************************************)

\* soul._runtime.builtin_args.KIMI_WORK_DIR
KIMI_WORK_DIR == WdA

\* Times at which the session command is run (minutes, like the files' times).
Clock == {3, 8}

\* Most reverts the context of the shell goes through.
MaxForks == 1

Forks(context) ==
    Cardinality({i \in 1..Len(context.file_backend.stem) :
                    context.file_backend.stem[i] = "_"})

\* The relative time shown for a session: the unit and the number before it.
TimeStr(now, timestamp) ==
    LET minutes == now - timestamp IN
    IF minutes < 5 THEN [unit |-> "just now", n |-> 0]
    ELSE IF minutes < 60 THEN [unit |-> "m ago", n |-> minutes]
    ELSE IF minutes < 1440 THEN [unit |-> "h ago", n |-> minutes \div 60]
    ELSE IF minutes < 10080 THEN [unit |-> "d ago", n |-> minutes \div 1440]
    ELSE [unit |-> "%m-%d", n |-> timestamp \div 1440]

\* preview_width: the width of the preview column of the picker.
PreviewColumnWidth == 50

TextEmpty == <<"e", "m", "p", "t", "y">>

\* str.ljust(width)
LJust(t, width) ==
    IF Len(t) >= width THEN t
    ELSE t \o [i \in 1..(width - Len(t)) |-> " "]

\* The preview column: info["first_message"] or "empty", cut or padded to
\* preview_width.
PreviewDisplay(first_message) ==
    LET preview == IF first_message.some /\ first_message.v # <<>>
                  THEN first_message.v
                  ELSE TextEmpty
    IN IF Len(preview) > PreviewColumnWidth - 3
       THEN SubSeq(preview, 1, PreviewColumnWidth - 3) \o <<".", ".", ".">>
       ELSE LJust(preview, PreviewColumnWidth)

\* f"{marker} {preview_display}  {time_str} · {info['num_messages']} msgs"
Label(inf, now) ==
    [marker |-> IF inf.is_current THEN ">" ELSE " ",
     preview_display |-> PreviewDisplay(inf.first_message),
     time_str |-> TimeStr(now, inf.timestamp),
     num_messages |-> inf.num_messages]

\* choices: the labels in the order of the listing.
Choices(session_list, now) ==
    [i \in 1..Len(session_list) |-> Label(session_list[i].info, now)]

\* session_map: label -> (session_id, info); an entry written later in the
\* loop replaces the one of an equal label.
SessionMap(session_list, now) ==
    LET choices == Choices(session_list, now) IN
    [label \in {choices[i] : i \in 1..Len(choices)} |->
        LET i == CHOOSE i \in 1..Len(choices) :
                    /\ choices[i] = label
                    /\ \A j \in 1..Len(choices) : choices[j] = label => j <= i
        IN [session_id |-> session_list[i].session_id,
            info |-> session_list[i].info]]

\* What a command found when it began: the registry's last_session_id of the
\* working directory and app.soul.
Snapshot == [last_session_id |-> LastSessionId(metaDoc, KIMI_WORK_DIR), soul |-> soul]

NoSnapshot == [last_session_id |-> None, soul |-> <<>>]

\* The frame of a command between its awaits: of session, the listing, the
\* choices and the map built from it, the number of the entry the user
\* selected (0 before), the session id it resolved to, and the session and
\* context loaded for it.
Frame(pc, before, session_list, choices, session_map, selected, picked, new_session, new_context) ==
    [pc |-> pc, before |-> before, session_list |-> session_list,
     choices |-> choices, session_map |-> session_map,
     selected |-> selected, picked |-> picked,
     new_session |-> new_session, new_context |-> new_context]

Idle == Frame("idle", NoSnapshot, <<>>, <<>>, <<>>, 0, None, <<>>, <<>>)

\* What the command that ended in the last step did (NoCommand when the last
\* step ended none): its name, the message it ended with,
\* the snapshot it began with, and the arguments of its calls of revert_to
\* and the number of its calls of compact_context.
Done(name, outcome, before, revert_to, compact_context) ==
    [cmd |-> name, outcome |-> outcome, before |-> before,
     revert_to |-> revert_to, compact_context |-> compact_context]

NoCommand == Done("none", "", NoSnapshot, <<>>, 0)

\* The id of a session that has just been created: no message has been
\* sent in it, and it has no file yet.
S0 == <<"s", "0">>

\* KimiSoul(agent, runtime, context): the context and the runtime's session.
KimiSoul(session, context) == [context |-> context, session |-> session]

\* The shell runs a session of its working directory: the registry names it
\* as the last session, and the context is what its file restores to.  The
\* session is s1, continued, or the new session s0.
ShellInit ==
    /\ \/ /\ metaDoc = save_metadata(
                          [work_dirs |-> <<WorkDirMeta(KIMI_WORK_DIR, Some(S1))>>])
          /\ \E slot \in {NoFile, <<SessionFile(LogChat, 1)>>} :
                /\ fs = [EmptyFs EXCEPT ![Md5(KIMI_WORK_DIR)][S1] = slot]
                /\ soul = KimiSoul(
                             Session(S1, KIMI_WORK_DIR, HistoryFile(KIMI_WORK_DIR, S1)),
                             Restore(fs, Context(HistoryFile(KIMI_WORK_DIR, S1))))
       \/ /\ metaDoc = save_metadata(
                          [work_dirs |-> <<WorkDirMeta(KIMI_WORK_DIR, Some(S0))>>])
          /\ fs = EmptyFs
          /\ soul = KimiSoul(
                       Session(S0, KIMI_WORK_DIR, HistoryFile(KIMI_WORK_DIR, S0)),
                       Context(HistoryFile(KIMI_WORK_DIR, S0)))
    /\ cmd = Idle
    /\ trace = NoCommand
    /\ out = NoCall
    /\ sessionFile = Unused
    /\ info = Unused

ContextHasNoHistory(context) == History(context) = <<>>

\* app.soul._context.n_checkpoints == 0
ContextIsEmpty(context) == NCheckpoints(context) = 0

\* /clear
Clear ==
    /\ cmd.pc = "idle"
    /\ IF ContextIsEmpty(soul.context)
       THEN /\ trace' = Done("clear", "Context is empty.", Snapshot, <<>>, 0)
            /\ UNCHANGED soul
       ELSE /\ Forks(soul.context) < MaxForks
            /\ soul' = [soul EXCEPT !.context = RevertTo(@, 0)]
            /\ trace' = Done("clear", "Context has been cleared.", Snapshot,
                             <<0>>, 0)
    /\ UNCHANGED <<metaDoc, fs, out, sessionFile, info, cmd>>

\* /compact
Compact ==
    /\ cmd.pc = "idle"
    /\ IF ContextIsEmpty(soul.context)
       THEN /\ trace' = Done("compact", "Context is empty.", Snapshot, <<>>, 0)
            /\ UNCHANGED soul
       ELSE /\ Forks(soul.context) < MaxForks
            /\ soul' = [soul EXCEPT !.context = CompactContext(@)]
            /\ trace' = Done("compact", "Context has been compacted.", Snapshot,
                             <<>>, 1)
    /\ UNCHANGED <<metaDoc, fs, out, sessionFile, info, cmd>>

\* /session up to the prompt: the sessions are listed and the choices built.
SessionList ==
    /\ cmd.pc = "idle"
    /\ \E glob \in GlobOrders(fs, Md5(KIMI_WORK_DIR)), now \in Clock :
          LET session_list == list_sessions(metaDoc, fs, KIMI_WORK_DIR, glob) IN
          IF session_list = <<>>
          THEN /\ trace' = Done("session", "No sessions found.", Snapshot, <<>>, 0)
               /\ UNCHANGED cmd
          ELSE /\ cmd' = Frame("prompt", Snapshot, session_list,
                               Choices(session_list, now),
                               SessionMap(session_list, now), 0, None, <<>>, <<>>)
               /\ trace' = NoCommand
    /\ UNCHANGED <<metaDoc, fs, out, sessionFile, info, soul>>

\* The prompt is left with Ctrl+C or Ctrl+D, or returns None.
SessionCancel ==
    /\ cmd.pc = "prompt"
    /\ cmd' = Idle
    /\ trace' = Done("session", "", cmd.before, <<>>, 0)
    /\ UNCHANGED <<metaDoc, fs, out, sessionFile, info, soul>>

\* The user selects entry i of the choices: the session the label maps to is
\* loaded, up to the await of new_context.restore().
SessionSelect(i) ==
    /\ cmd.pc = "prompt"
    /\ i \in 1..Len(cmd.choices)
    /\ LET chosen == cmd.session_map[cmd.choices[i]]
           r == load_session(metaDoc, fs, KIMI_WORK_DIR, chosen.session_id)
       IN IF chosen.info.is_current
          THEN /\ cmd' = Idle
               /\ trace' = Done("session", "You are already in this session.",
                                cmd.before, <<>>, 0)
               /\ UNCHANGED metaDoc
          ELSE /\ metaDoc' = r.doc
               /\ IF r.session = <<>>
                  THEN /\ cmd' = Idle
                       /\ trace' = Done("session", "Failed to load session.",
                                        cmd.before, <<>>, 0)
                  ELSE /\ cmd' = [cmd EXCEPT
                                     !.pc = "restore",
                                     !.selected = i,
                                     !.picked = Some(chosen.session_id),
                                     !.new_session = r.session,
                                     !.new_context =
                                        <<Context(r.session[1].history_file)>>]
                       /\ trace' = NoCommand
    /\ UNCHANGED <<fs, out, sessionFile, info, soul>>

SwitchContextOnly(s, new_context, new_session) ==
    KimiSoul(s.session, new_context)

\* app.soul._context = new_context and app.soul._runtime = the runtime with
\* session=new_session, with no await in between.
SwitchTo(s, new_context, new_session) == KimiSoul(new_session, new_context)

\* new_context.restore() returns: the session is empty, or the app is
\* switched to it (context and runtime session, with no await in between).
SessionRestored ==
    /\ cmd.pc = "restore"
    /\ LET new_context == Restore(fs, cmd.new_context[1]) IN
       IF ~Restored(new_context) \/ History(new_context) = <<>>
       THEN /\ trace' = Done("session", "The session is empty.", cmd.before,
                             <<>>, 0)
            /\ UNCHANGED soul
       ELSE /\ soul' = SwitchTo(soul, new_context, cmd.new_session[1])
            /\ trace' = Done("session", "Session switched successfully",
                             cmd.before, <<>>, 0)
    /\ cmd' = Idle
    /\ UNCHANGED <<metaDoc, fs, out, sessionFile, info>>

\* Most runs of init that end by appending their note to the context.
MaxInits == 1

\* Path(temp_dir) / "context.jsonl": the file of the context init runs in.
TempFile == [dir |-> <<"tmp", <<"/", "t">>>>, stem |-> <<"c", "o", "n", "t", "e", "x", "t">>]

\* Message(role="user", content=[system(...)]): the note that init has run.
InitNote ==
    Record(RoleUser, ListContent(<<TextPart(SystemWrap(<<"i", "n", "i", "t">>))>>))

\* context.append_message(message)
AppendMessage(context, message) ==
    [context EXCEPT !.entries = Append(@, message)]

\* The notes of init in a context.
InitNotes(context) ==
    Len(SelectSeq(context.entries, LAMBDA e : e = InitNote))

\* app.soul = soul_bak
RestoreSoul(soul_bak, temp_soul) == soul_bak

\* /init up to the await of the analysis: app.soul is a soul of the same
\* agent and runtime on a new context in a temporary directory.
InitStart ==
    /\ cmd.pc = "idle"
    /\ InitNotes(soul.context) < MaxInits
    /\ cmd' = [Idle EXCEPT !.pc = "init", !.before = Snapshot]
    /\ soul' = KimiSoul(soul.session, Context(TempFile))
    /\ trace' = NoCommand
    /\ UNCHANGED <<metaDoc, fs, out, sessionFile, info>>

\* The analysis returns ok or not ok: the outcome is printed, the soul is
\* put back and the note is appended to its context.
InitReturned(ok) ==
    /\ cmd.pc = "init"
    /\ soul' = LET soul_bak == RestoreSoul(cmd.before.soul, soul) IN
               [soul_bak EXCEPT !.context = AppendMessage(@, InitNote)]
    /\ trace' = Done("init",
                     IF ok THEN "Codebase analyzed successfully!"
                           ELSE "Failed to analyze the codebase.",
                     cmd.before, <<>>, 0)
    /\ cmd' = Idle
    /\ UNCHANGED <<metaDoc, fs, out, sessionFile, info>>

\* The await of the analysis raises (the run is cancelled, Reload, an error
\* of the provider): the exception leaves the with block and the command.
InitRaised ==
    /\ cmd.pc = "init"
    /\ trace' = Done("init", "raised", cmd.before, <<>>, 0)
    /\ cmd' = Idle
    /\ UNCHANGED <<metaDoc, fs, out, sessionFile, info, soul>>

\* A session file of the working directory is written by another process
\* while the shell runs.
FileWritten(stem, file) ==
    /\ fs[Md5(KIMI_WORK_DIR)][stem] # <<file>>
    /\ fs' = [fs EXCEPT ![Md5(KIMI_WORK_DIR)][stem] = <<file>>]
    /\ FileCount(fs') <= MaxFiles
    /\ trace' = NoCommand
    /\ UNCHANGED <<metaDoc, out, sessionFile, info, soul, cmd>>

\* A session file of the working directory is deleted while the shell runs.
FileDeleted(stem) ==
    /\ Exists(fs, Md5(KIMI_WORK_DIR), stem)
    /\ fs' = [fs EXCEPT ![Md5(KIMI_WORK_DIR)][stem] = NoFile]
    /\ trace' = NoCommand
    /\ UNCHANGED <<metaDoc, out, sessionFile, info, soul, cmd>>

ShellNext ==
    \/ Clear
    \/ Compact
    \/ SessionList
    \/ SessionCancel
    \/ \E i \in 1..MaxFiles : SessionSelect(i)
    \/ SessionRestored
    \/ InitStart
    \/ \E ok \in BOOLEAN : InitReturned(ok)
    \/ InitRaised
    \/ \E stem \in Stems, file \in SampleFiles : FileWritten(stem, file)
    \/ \E stem \in Stems : FileDeleted(stem)

ShellSpec == ShellInit /\ [][ShellNext]_vars

(***************************************************************************)
(* Properties                                                              *)
(***************************************************************************)

\* A stem that holds the separator of the backup naming convention.
HasSeparator(stem) == "_" \in {stem[k] : k \in 1..Len(stem)}

\* The stems of the live session files of a working directory's namespace.
LiveStems(work_dir) ==
    {stem \in Stems : Exists(fs, Md5(work_dir), stem) /\ ~HasSeparator(stem)}

BackupStems(work_dir) ==
    {stem \in Stems : Exists(fs, Md5(work_dir), stem) /\ HasSeparator(stem)}

\* The positions of the summaries a listing marks as current.
CurrentIn(sessions) == {i \in 1..Len(sessions) : sessions[i].info.is_current}

\* The positions of the summaries of a session id in a listing.
EntriesOf(sessions, id) == {i \in 1..Len(sessions) : sessions[i].session_id = id}

Listed == out.op = "list_sessions"

\* C1: a listing holds no summary of a file whose stem contains "_",
\* whatever the file holds; the listing of a registered working directory
\* with one live file and one backup file is exactly one summary.
C1_BackupsNeverListed ==
    Listed =>
        /\ \A i \in 1..Len(out.sessions) : ~HasSeparator(out.sessions[i].session_id)
        /\ ( /\ Registered(metaDoc, out.work_dir)
             /\ Cardinality(LiveStems(out.work_dir)) = 1
             /\ Cardinality(BackupStems(out.work_dir)) = 1 )
           => Len(out.sessions) = 1

\* A listing of a registered directory that holds a live file and a backup
\* file with messages in it.
C1_Witness ==
    /\ Listed
    /\ Registered(metaDoc, out.work_dir)
    /\ LiveStems(out.work_dir) = {S1}
    /\ fs[Md5(out.work_dir)][S1Backup] = <<SessionFile(LogChat, 1)>>
    /\ Len(out.sessions) = 1

\* C2: a listing marks as current exactly the summary of the session the
\* registry names as last session of the directory, so at most one; and once
\* load_session has resumed a session, every listing of the directory marks
\* the summary of that session and no other.
C2_CurrentMarking ==
    /\ Listed =>
          /\ Cardinality(CurrentIn(out.sessions)) <= 1
          /\ CurrentIn(out.sessions) =
                {i \in 1..Len(out.sessions) :
                    Some(out.sessions[i].session_id)
                        = LastSessionId(metaDoc, out.work_dir)}
    /\ (out.op = "load_session" /\ out.session # <<>>) =>
          \A glob \in GlobOrders(fs, Md5(out.work_dir)) :
             LET sessions == list_sessions(metaDoc, fs, out.work_dir, glob) IN
             /\ CurrentIn(sessions) = EntriesOf(sessions, out.session_id.v)
             /\ ~HasSeparator(out.session_id.v)
                   => Cardinality(CurrentIn(sessions)) = 1

\* s2 has been resumed in a directory of live sessions s1 and s2 where s1
\* was the last session.
C2_Witness ==
    /\ out.op = "load_session"
    /\ out.session # <<>>
    /\ out.session_id = Some(S2)
    /\ LastSessionId(out.before, out.work_dir) = Some(S1)
    /\ LiveStems(out.work_dir) = {S1, S2}
    /\ LastSessionId(metaDoc, out.work_dir) = Some(S2)

LoadCalled == out.op = "load_session"

\* Whether <session_id>.jsonl of the call exists in the namespace of its
\* working directory (load_session writes no session file).
LoadFileExists == Exists(fs, Md5(out.work_dir), out.session_id.v)

\* C4: load_session returns no session, does not save and leaves the
\* document as it was when the working directory has no record or the
\* history file does not exist; when both are there it returns the session,
\* saves, and the record's last_session_id is the session id.
C4_LoadSessionFailureKeepsRegistry ==
    LoadCalled =>
        IF Registered(out.before, out.work_dir) /\ LoadFileExists
        THEN /\ out.session # <<>>
             /\ out.saved
             /\ LastSessionId(metaDoc, out.work_dir) = out.session_id
        ELSE /\ out.session = <<>>
             /\ ~out.saved
             /\ metaDoc = out.before

\* load_session of a missing file in a registered directory that has a last
\* session.
C4_Witness ==
    /\ LoadCalled
    /\ Registered(out.before, out.work_dir)
    /\ ~LoadFileExists
    /\ LastSessionId(out.before, out.work_dir).some
    /\ LastSessionId(out.before, out.work_dir) # out.session_id
    /\ out.session = <<>>

\* C5: when the registry names a last session of which no live file exists,
\* a listing of the directory is the summaries of its live files with none
\* marked as current; and a call of load_session that leaves another
\* last_session_id than it found leaves the id of a file that exists.
C5_MissingCurrentDegrades ==
    /\ Listed =>
          LET last == LastSessionId(metaDoc, out.work_dir) IN
          (last.some /\ last.v \notin LiveStems(out.work_dir)) =>
              /\ Len(out.sessions) = Cardinality(LiveStems(out.work_dir))
              /\ CurrentIn(out.sessions) = {}
    /\ LoadCalled =>
          \A p \in Paths :
             LastSessionId(metaDoc, p) # LastSessionId(out.before, p) =>
                /\ p = out.work_dir
                /\ LastSessionId(metaDoc, p) = out.session_id
                /\ LoadFileExists

\* A listing with a live session in it while the session the registry names
\* has no file.
C5_Witness ==
    /\ Listed
    /\ LastSessionId(metaDoc, out.work_dir) = Some(S1)
    /\ ~Exists(fs, Md5(out.work_dir), S1)
    /\ Len(out.sessions) = 1
    /\ out.sessions[1].session_id = S2

HasBadLine(file) == \E k \in 1..Len(file.lines) : file.lines[k].kind = "bad"

\* C9: the listing of a registered working directory holds exactly one
\* summary for each live session file of its namespace and nothing else,
\* also for a file with a line that cannot be decoded, and the summary of
\* each file is the info of that file alone.
C9_EveryLiveSessionListed ==
    (Listed /\ Registered(metaDoc, out.work_dir)) =>
        /\ \A stem \in LiveStems(out.work_dir) :
              Cardinality(EntriesOf(out.sessions, stem)) = 1
        /\ Len(out.sessions) = Cardinality(LiveStems(out.work_dir))
        /\ \A i \in 1..Len(out.sessions) :
              LET e == out.sessions[i]
                  inf == GetSessionInfo(fs[Md5(out.work_dir)][e.session_id][1])
              IN /\ e.session_id \in LiveStems(out.work_dir)
                 /\ e.info.num_messages = inf.num_messages
                 /\ e.info.num_checkpoints = inf.num_checkpoints
                 /\ e.info.first_message = inf.first_message

\* A listing of a damaged session and an intact one: both are there, the
\* intact one with its counts.
C9_Witness ==
    /\ Listed
    /\ Len(out.sessions) = 2
    /\ \E i, j \in 1..2 :
          /\ HasBadLine(fs[Md5(out.work_dir)][out.sessions[i].session_id][1])
          /\ fs[Md5(out.work_dir)][out.sessions[j].session_id][1].lines = LogChat
          /\ out.sessions[j].info.num_messages = 2
          /\ out.sessions[j].info.num_checkpoints = 1

Summarized == info # <<>>

\* The positions of the lines of a file that cannot be decoded.
BadAt(lines) == {k \in 1..Len(lines) : lines[k].kind = "bad"}

FirstBad(lines) == CHOOSE k \in BadAt(lines) : \A m \in BadAt(lines) : k <= m

\* The decodable records among the lines at the positions in `at` whose role
\* is one of `roles`.
RecordsAt(lines, at, roles) ==
    {k \in at : lines[k].kind = "obj" /\ lines[k].role \in roles}

C8_DecodeFailureContainedToRecord ==
    Summarized =>
        LET lines == sessionFile.lines
            all == 1..Len(lines)
        IN /\ info[1].num_messages
                = Cardinality(RecordsAt(lines, all, {RoleUser, RoleAssistant}))
           /\ info[1].num_checkpoints
                = Cardinality(RecordsAt(lines, all, {RoleCheckpoint}))

\* C10: the summary of a file whose lines all decode counts as messages
\* the records of role user or assistant and as checkpoints the records of
\* role _checkpoint: records of role tool or without role, checkpoints and
\* blank lines are no messages.
C10_CountsOfDecodableFile ==
    (Summarized /\ BadAt(sessionFile.lines) = {}) =>
        LET lines == sessionFile.lines
            all == 1..Len(lines)
        IN /\ info[1].num_messages
                = Cardinality(RecordsAt(lines, all, {RoleUser, RoleAssistant}))
           /\ info[1].num_checkpoints
                = Cardinality(RecordsAt(lines, all, {RoleCheckpoint}))
           /\ info[1].num_messages + info[1].num_checkpoints
                <= Len(lines)
                   - Cardinality({k \in all : lines[k] \in {BlankLine, ToolResult}})

\* The summary of a decodable file with a blank line, a tool record and a
\* message.
C10_Witness ==
    /\ Summarized
    /\ sessionFile.lines = <<BlankLine, ToolResult, UserHi>>
    /\ info[1].num_messages = 1
    /\ info[1].num_checkpoints = 0

\* The session command has ended with a reported failure.
ResumeFailed ==
    /\ trace.cmd = "session"
    /\ trace.outcome \in {"Failed to load session.", "The session is empty."}

\* C3 as stated: when the session command ends with "Failed to load
\* session." or "The session is empty.", the registry's last_session_id of
\* the working directory, the app's context and the runtime's session are
\* what they were when the command began.
C3_FailedResumeLeavesState ==
    ResumeFailed =>
        /\ LastSessionId(metaDoc, KIMI_WORK_DIR) = trace.before.last_session_id
        /\ soul = trace.before.soul

\* A clear or compact command has ended.
Reverting == trace.cmd \in {"clear", "compact"}

\* C6: clear and compact on a context without checkpoints call neither
\* revert_to nor compact_context and leave app.soul with its context as it
\* was; on a context with checkpoints clear calls revert_to(0) once and
\* nothing else, compact calls compact_context once.
C6_EmptyContextIsNoOp ==
    Reverting =>
        IF NCheckpoints(trace.before.soul.context) = 0
        THEN /\ trace.revert_to = <<>>
             /\ trace.compact_context = 0
             /\ soul = trace.before.soul
             /\ trace.outcome = "Context is empty."
        ELSE /\ trace.cmd = "clear"
                  => trace.revert_to = <<0>> /\ trace.compact_context = 0
             /\ trace.cmd = "compact"
                  => trace.revert_to = <<>> /\ trace.compact_context = 1

\* clear on a context that holds messages and no checkpoint.
C6_Witness ==
    /\ trace.cmd = "clear"
    /\ NCheckpoints(trace.before.soul.context) = 0
    /\ History(trace.before.soul.context) # <<>>
    /\ trace.revert_to = <<>>

\* The positions of the lines the scan reads: those before the first line
\* that cannot be decoded.
Scanned(lines) ==
    IF BadAt(lines) = {} THEN 1..Len(lines) ELSE 1..(FirstBad(lines) - 1)

\* A user record that carries a text for the preview: its content is not
\* empty, it is a string or a list whose first element is a string or an
\* object with a "text" field, and the text is not wrapped as
\* <system>...</system>.
CarriesText(line) ==
    /\ line.kind = "obj"
    /\ line.role = RoleUser
    /\ \/ line.content.type = "str" /\ line.content.text # <<>>
       \/ /\ line.content.type = "list"
          /\ line.content.parts # <<>>
          /\ \/ line.content.parts[1].type = "str"
             \/ line.content.parts[1].hasText
    /\ ~IsSystemText(ContentText(line.content).v)

\* The positions of the scanned user records that carry a text.
TextAt(lines) == {k \in Scanned(lines) : CarriesText(lines[k])}

\* The text of the first user record that carries one.
FirstText(lines) ==
    LET k == CHOOSE j \in TextAt(lines) : \A m \in TextAt(lines) : j <= m
    IN ContentText(lines[k].content).v

\* C11 as stated: the preview is the text of the first user message that is
\* not a wrapped system message, cut to its first 50 characters, and absent
\* when there is no such message.
C11_PreviewIsTruncatedText ==
    Summarized =>
        IF TextAt(sessionFile.lines) = {}
        THEN ~info[1].first_message.some
        ELSE info[1].first_message
                = Some(Truncate(FirstText(sessionFile.lines), PreviewWidth))

\* C11, amended: the preview is the text of the first user message that
\* carries a text and is not a wrapped system message, cut to its first 50
\* characters and then stripped of leading and trailing whitespace, so it is
\* at most 50 characters long; it is absent when no scanned user message
\* carries such a text.  "<system>x</system>" alone gives no preview,
\* [{"text": "hello"}] gives "hello", also behind a system message.
C11_PreviewIsStrippedTruncatedText ==
    Summarized =>
        LET lines == sessionFile.lines
            preview == info[1].first_message
        IN /\ IF TextAt(lines) = {}
              THEN ~preview.some
              ELSE /\ preview
                        = Some(Strip(Truncate(FirstText(lines), PreviewWidth)))
                   /\ Len(preview.v) <= PreviewWidth
           /\ lines = <<UserSystem>> => ~preview.some
           /\ lines \in {<<UserParts>>, <<UserSystem, UserParts>>,
                         <<UserStrPart>>}
                 => preview = Some(TextHello)
           /\ lines = <<UserLong>>
                 => preview = Some([k \in 1..PreviewWidth |-> "a"])
           /\ lines = <<UserImage, UserEmpty, UserHi>> => preview = Some(TextHi)

\* The summary of a file whose first user message is a system message and
\* whose second is a long text: the preview is the first 50 characters.
C11_Witness ==
    /\ Summarized
    /\ sessionFile.lines = <<UserSystem, UserLong, UserHi>>
    /\ info[1].first_message.some
    /\ Len(info[1].first_message.v) = PreviewWidth

\* C12: the summaries of a listing are in descending order of timestamp,
\* the timestamp of a summary being the last-modified time of its file:
\* of two adjacent summaries the first has the greater or equal timestamp.
C12_SortedByTimestampDescending ==
    Listed =>
        /\ \A i \in 1..(Len(out.sessions) - 1) :
              out.sessions[i].info.timestamp >= out.sessions[i + 1].info.timestamp
        /\ \A i \in 1..Len(out.sessions) :
              out.sessions[i].info.timestamp
                 = fs[Md5(out.work_dir)][out.sessions[i].session_id][1].mtime

\* A listing of two sessions of different age: the younger s2 comes before
\* the older s1.
C12_Witness ==
    /\ Listed
    /\ Len(out.sessions) = 2
    /\ out.sessions[1].session_id = S2
    /\ out.sessions[1].info.timestamp = 2
    /\ out.sessions[2].session_id = S1
    /\ out.sessions[2].info.timestamp = 1

\* C13: the listing of a working directory of which the registry has no
\* record is empty, whatever files the namespace of the path holds: when
\* there is no metadata document, when the document has no record, and when
\* it has records of other paths only.
C13_UnregisteredListsNothing ==
    (Listed /\ ~Registered(metaDoc, out.work_dir)) =>
        /\ out.sessions = <<>>
        /\ metaDoc = out.before

\* A listing of a path with a live session file in its namespace while the
\* metadata document has no record at all.
C13_Witness ==
    /\ Listed
    /\ metaDoc = save_metadata(EmptyMetadata)
    /\ LiveStems(out.work_dir) # {}
    /\ out.sessions = <<>>

(***************************************************************************)
(* SaveSpec: kimi.json as the text save_metadata writes and load_metadata  *)
(* reads, with a process that may die while it writes                      *)
(***************************************************************************)

\* Most records of a registry handed to save_metadata.
MaxRecords == 2

\* The records of the registries: a path without and with a last session,
\* and another path.
Records ==
    {WorkDirMeta(WdA, None), WorkDirMeta(WdA, Some(S1)), WorkDirMeta(WdB, Some(S2))}

RECURSIVE RegistriesOf(_)
RegistriesOf(n) ==
    IF n = 0 THEN {<<>>}
    ELSE RegistriesOf(n - 1)
         \cup {Append(r, wd) : r \in {x \in RegistriesOf(n - 1) : Len(x) = n - 1},
                               wd \in Records}

\* The registries of at most MaxRecords records.
Registries == {[work_dirs |-> r] : r \in RegistriesOf(MaxRecords)}

\* The text of the document is a sequence of JSON tokens: punctuation, keys
\* and the values JString and JNull.
Punct(c) == [t |-> "punct", s |-> <<c>>]

Key(name) == [t |-> "key", s |-> <<name>>]

\* The tokens json.dump writes for one record of model_dump().
EncodeRecord(wd) ==
    <<Punct("{"), Key("path"), wd.path,
      Key("last_session_id"), wd.last_session_id, Punct("}")>>

RECURSIVE EncodeRecords(_)
EncodeRecords(wds) ==
    IF wds = <<>> THEN <<>>
    ELSE EncodeRecord(Head(wds)) \o EncodeRecords(Tail(wds))

\* json.dump(data, f): the text of a dumped registry.
Encode(data) ==
    <<Punct("{"), Key("work_dirs"), Punct("[")>>
    \o EncodeRecords(data.work_dirs)
    \o <<Punct("]"), Punct("}")>>

\* Tokens in front of and behind the records, and of one record.
HeadLen == 3

TailLen == 2

RecordLen == 6

\* The number of records of a text of the length of a dumped registry, -1
\* for a text of another length.
RecordCount(text) ==
    IF /\ Len(text) >= HeadLen + TailLen
       /\ (Len(text) - HeadLen - TailLen) % RecordLen = 0
    THEN (Len(text) - HeadLen - TailLen) \div RecordLen
    ELSE -1

\* The tokens of the i-th record of a text.
RecordAt(text, i) ==
    SubSeq(text, HeadLen + (i - 1) * RecordLen + 1, HeadLen + i * RecordLen)

\* Whether json.load(f) and Metadata(**data) accept the text: it is a whole
\* object with a list of objects whose path is a string and whose
\* last_session_id is a string or null.
Decodes(text) ==
    /\ RecordCount(text) >= 0
    /\ SubSeq(text, 1, HeadLen) = <<Punct("{"), Key("work_dirs"), Punct("[")>>
    /\ SubSeq(text, Len(text) - TailLen + 1, Len(text))
          = <<Punct("]"), Punct("}")>>
    /\ \A i \in 1..RecordCount(text) :
          LET r == RecordAt(text, i) IN
          /\ r[1] = Punct("{")
          /\ r[2] = Key("path")
          /\ r[3].t = "string"
          /\ r[4] = Key("last_session_id")
          /\ r[5].t \in {"string", "null"}
          /\ r[6] = Punct("}")

\* json.load(f) of a text that Decodes.
Decode(text) ==
    [work_dirs |->
        [i \in 1..RecordCount(text) |->
            [path |-> RecordAt(text, i)[3],
             last_session_id |-> RecordAt(text, i)[5]]]]

\* The outcome of load_metadata(): a registry, or an exception raised.
Returned(metadata) == [op |-> "load_metadata", raised |-> FALSE, metadata |-> <<metadata>>]

Raised == [op |-> "load_metadata", raised |-> TRUE, metadata |-> <<>>]

NoLoad == [op |-> "none", raised |-> FALSE, metadata |-> <<>>]

\* load_metadata() on the file kimi.json: <<>> when there is no file,
\* <<text>> otherwise.
LoadFile(file) ==
    IF file = <<>> THEN Returned(load_metadata(Absent))
    ELSE IF Decodes(file[1]) THEN Returned(load_metadata(<<Decode(file[1])>>))
    ELSE Raised

\* The position of the process in save_metadata.
SaveIdle == [pc |-> "idle", rest |-> <<>>]

Dumping(rest) == [pc |-> "dump", rest |-> rest]

\* The last call of save_metadata: the file it found, the registry it was
\* given, whether it returned and whether the process died in it.
Save(previous, metadata, returned, died) ==
    [previous |-> previous, metadata |-> metadata,
     returned |-> returned, died |-> died]

NoSave == Save(<<>>, <<>>, FALSE, FALSE)

SaveInit ==
    /\ metaDoc = <<>>
    /\ cmd = SaveIdle
    /\ out = NoLoad
    /\ trace = NoSave
    /\ fs = Unused
    /\ sessionFile = Unused
    /\ info = Unused
    /\ soul = Unused

\* open(metadata_file, "w"): the file is created or cut to length zero.  The
\* registry that is saved was loaded before (load_session loads, then
\* saves), so the file was absent or could be loaded.
SaveOpen(metadata) ==
    /\ cmd.pc = "idle"
    /\ ~LoadFile(metaDoc).raised
    /\ metaDoc' = << <<>> >>
    /\ cmd' = Dumping(Encode(ModelDump(metadata)))
    /\ trace' = Save(metaDoc, <<metadata>>, FALSE, FALSE)
    /\ out' = NoLoad
    /\ UNCHANGED <<fs, sessionFile, info, soul>>

\* json.dump writes the next piece of the text.
SaveWrite ==
    /\ cmd.pc = "dump"
    /\ cmd.rest # <<>>
    /\ metaDoc' = <<Append(metaDoc[1], Head(cmd.rest))>>
    /\ cmd' = Dumping(Tail(cmd.rest))
    /\ UNCHANGED <<fs, out, sessionFile, info, soul, trace>>

\* The text is written, the file is closed, save_metadata returns.
SaveClose ==
    /\ cmd.pc = "dump"
    /\ cmd.rest = <<>>
    /\ cmd' = SaveIdle
    /\ trace' = [trace EXCEPT !.returned = TRUE]
    /\ UNCHANGED <<metaDoc, fs, out, sessionFile, info, soul>>

\* The process dies inside save_metadata; the file stays as it is, and the
\* next process starts.
SaveCrash ==
    /\ cmd.pc = "dump"
    /\ cmd' = SaveIdle
    /\ trace' = [trace EXCEPT !.died = TRUE]
    /\ UNCHANGED <<metaDoc, fs, out, sessionFile, info, soul>>

\* load_metadata()
LoadMetadata ==
    /\ cmd.pc = "idle"
    /\ out' = LoadFile(metaDoc)
    /\ UNCHANGED <<metaDoc, fs, sessionFile, info, soul, cmd, trace>>

SaveNext ==
    \/ \E metadata \in Registries : SaveOpen(metadata)
    \/ SaveWrite
    \/ SaveClose
    \/ SaveCrash
    \/ LoadMetadata

SaveSpec == SaveInit /\ [][SaveNext]_vars

MetadataLoaded == out.op = "load_metadata"

\* C14: load_metadata after a save_metadata that returned yields a registry
\* equal to the one saved, for registries of no, one and several records
\* with last_session_id set or None; without a metadata document it yields
\* the registry with no record.
C14_SaveLoadRoundTrip ==
    MetadataLoaded =>
        /\ metaDoc = <<>> => out = Returned(EmptyMetadata)
        /\ trace.returned =>
              /\ ~out.raised
              /\ out.metadata = trace.metadata
              /\ Len(out.metadata[1].work_dirs) = Len(trace.metadata[1].work_dirs)

\* A registry of two records, one without and one with a last session, has
\* been saved and loaded.
C14_Witness ==
    /\ MetadataLoaded
    /\ trace.returned
    /\ trace.metadata
          = <<[work_dirs |-> <<WorkDirMeta(WdA, None), WorkDirMeta(WdB, Some(S2))>>]>>
    /\ out.metadata = trace.metadata

\* C15 as stated: when the process has died in save_metadata, the document
\* on disk is the whole document that was there before or the whole new
\* one, and load_metadata never fails on the document.
C15_SaveIsAtomic ==
    /\ trace.died =>
          metaDoc \in {trace.previous, <<Encode(ModelDump(trace.metadata[1]))>>}
    /\ MetadataLoaded => ~out.raised

(***************************************************************************)
(* RegisterSpec: the tables of meta commands under meta_command            *)
(* registrations                                                           *)
(***************************************************************************)

\* Most registrations of one behaviour.
MaxRegistrations == 3

\* The decorated functions: f.__name__ and f.__doc__.
Func(name, doc) == [__name__ |-> name, __doc__ |-> doc]

Funcs == {Func("help", " Show help information "), Func("exit", "")}

\* The name argument: <<>> for None, <<s>> for the string s.
NameArgs == {<<>>, <<"">>, <<"run">>}

\* The aliases argument: <<>> stands for None and for no alias.
AliasArgs == {<<>>, <<"h">>, <<"h", "?">>, <<"help">>}

\* str.strip() of a docstring.
StripDoc(doc) ==
    IF doc = " Show help information " THEN "Show help information" ELSE doc

\* MetaCommand(name, description, func, aliases, kimi_soul_only); id tells
\* the objects apart: it is the number of the registration that made it.
MetaCommand(id, name, description, func, aliases, kimi_soul_only) ==
    [id |-> id, name |-> name, description |-> description, func |-> func,
     aliases |-> aliases, kimi_soul_only |-> kimi_soul_only]

\* A dict is the sequence of its items in insertion order.
EmptyDict == <<>>

Item(key, value) == [key |-> key, value |-> value]

Keys(dict) == {dict[i].key : i \in 1..Len(dict)}

\* dict.get(key): <<>> for None, <<value>> otherwise
Get(dict, key) ==
    IF key \in Keys(dict)
    THEN <<(CHOOSE i \in 1..Len(dict) : dict[i].key = key)>>
    ELSE <<>>

\* dict[key] = value: the value of a key that is there is replaced in
\* place, a new key is added behind the others.
SetItem(dict, key, value) ==
    IF key \in Keys(dict)
    THEN [i \in 1..Len(dict) |->
             IF dict[i].key = key THEN Item(key, value) ELSE dict[i]]
    ELSE Append(dict, Item(key, value))

\* The tables: primary name -> MetaCommand, primary name or alias ->
\* MetaCommand.
Tables(meta_commands, meta_command_aliases) ==
    [_meta_commands |-> meta_commands,
     _meta_command_aliases |-> meta_command_aliases]

\* for alias in alias_list: _meta_command_aliases[alias] = cmd
RECURSIVE SetAliases(_, _, _)
SetAliases(dict, alias_list, command) ==
    IF alias_list = <<>> THEN dict
    ELSE SetAliases(SetItem(dict, Head(alias_list), command),
                    Tail(alias_list), command)

RegisterAliasesAsPrimary(tables, command) ==
    Tables(SetAliases(SetItem(tables._meta_commands, command.name, command),
                      command.aliases, command),
           SetAliases(SetItem(tables._meta_command_aliases, command.name, command),
                      command.aliases, command))

\* The tables after _register has put the command in.
RegisterCommand(tables, command) ==
    Tables(SetItem(tables._meta_commands, command.name, command),
           SetAliases(SetItem(tables._meta_command_aliases, command.name, command),
                      command.aliases, command))

\* get_meta_command(name)
get_meta_command(tables, name) ==
    LET hit == Get(tables._meta_command_aliases, name) IN
    IF hit = <<>> THEN <<>> ELSE <<tables._meta_command_aliases[hit[1]].value>>

\* get_meta_commands()
get_meta_commands(tables) ==
    [i \in 1..Len(tables._meta_commands) |-> tables._meta_commands[i].value]

RegisterInit ==
    /\ cmd = Tables(EmptyDict, EmptyDict)
    /\ trace = <<>>
    /\ metaDoc = Unused
    /\ fs = Unused
    /\ out = Unused
    /\ sessionFile = Unused
    /\ info = Unused
    /\ soul = Unused

\* @meta_command(name=..., aliases=..., kimi_soul_only=...) applied to f:
\* _register(f).  trace is the commands made so far.
Register(f, name, aliases, kimi_soul_only) ==
    /\ Len(trace) < MaxRegistrations
    /\ LET primary == IF name = <<>> \/ name = <<"">>
                      THEN f.__name__
                      ELSE name[1]
           command == MetaCommand(Len(trace) + 1, primary,
                                  StripDoc(f.__doc__), f, aliases,
                                  kimi_soul_only)
       IN /\ cmd' = RegisterCommand(cmd, command)
          /\ trace' = Append(trace, command)
    /\ UNCHANGED <<metaDoc, fs, out, sessionFile, info, soul>>

\* kimi_soul_only is stored and never read by the tables: one value for
\* each function is enough.
RegisterNext ==
    \E f \in Funcs, name \in NameArgs, aliases \in AliasArgs :
        Register(f, name, aliases, f.__name__ = "exit")

RegisterSpec == RegisterInit /\ [][RegisterNext]_vars

\* The names a command was registered under: its primary name and aliases.
NamesOf(command) ==
    {command.name} \cup {command.aliases[k] : k \in 1..Len(command.aliases)}

\* The positions of a command object in get_meta_commands().
ListedAt(command) ==
    {i \in 1..Len(get_meta_commands(cmd)) : get_meta_commands(cmd)[i] = command}

\* Each registered command is in get_meta_commands() exactly once, under no
\* alias, and get_meta_command yields it for each of its names.
TablesHoldEveryCommand ==
    /\ \A n \in 1..Len(trace) : Cardinality(ListedAt(trace[n])) = 1
    /\ Len(get_meta_commands(cmd)) = Len(trace)
    /\ Keys(cmd._meta_commands) = {trace[n].name : n \in 1..Len(trace)}
    /\ \A n \in 1..Len(trace) :
          \A x \in NamesOf(trace[n]) : get_meta_command(cmd, x) = <<trace[n]>>

\* No name of a registration is a name of another registration.
NamesAreDistinct ==
    \A n, k \in 1..Len(trace) :
        n # k => NamesOf(trace[n]) \cap NamesOf(trace[k]) = {}

\* C16 as stated: after any registrations, every registered command is in
\* get_meta_commands() exactly once, keyed by its primary name and under no
\* alias, and get_meta_command yields that command for its primary name and
\* for each of its aliases.
C16_EveryCommandOnceUnderAllNames ==
    TablesHoldEveryCommand

\* C16, amended: the same after registrations of which no primary name or
\* alias is the primary name or an alias of another registration.
C16_DistinctNamesEveryCommandOnce ==
    NamesAreDistinct => TablesHoldEveryCommand

\* Two commands of distinct names are registered, one with two aliases, and
\* the alias "?" yields it.
C16_Witness ==
    /\ Len(trace) = 2
    /\ NamesAreDistinct
    /\ trace[2].name = "help"
    /\ trace[2].aliases = <<"h", "?">>
    /\ get_meta_command(cmd, "?") = <<trace[2]>>
    /\ Len(get_meta_commands(cmd)) = 2

\* C20 as stated: for every command of get_meta_commands(), get_meta_command
\* of its primary name yields that very command, whatever was registered
\* afterwards.
C20_TablesAgreeOnPrimaryNames ==
    \A i \in 1..Len(get_meta_commands(cmd)) :
        LET command == get_meta_commands(cmd)[i] IN
        get_meta_command(cmd, command.name) = <<command>>

\* C19 as stated: the session that load_session is called for is the one
\* the entry the user selected was built from, also when two entries of the
\* listing have the same label.
C19_SelectedEntryIsResumed ==
    cmd.pc = "restore" =>
        cmd.picked = Some(cmd.session_list[cmd.selected].session_id)

\* The session a context writes to: the stem of its backing file without
\* the fork suffix.
SessionOf(context) ==
    LET stem == context.file_backend.stem
        cut == {k \in 1..Len(stem) : stem[k] = "_"}
    IN IF cut = {} THEN stem
       ELSE SubSeq(stem, 1, (CHOOSE k \in cut : \A m \in cut : k <= m) - 1)

\* The session command has ended.
SessionEnded == trace.cmd = "session"

Switched == trace.outcome = "Session switched successfully"

\* C17: at every point where the session command is suspended or has
\* returned, the app's context and the runtime's session are of the same
\* session.  Until the switch they are the ones the command found; after a
\* switch the context is a new one, of the file of the runtime's session and
\* holding what that file restores to and nothing of the previous context;
\* on every other path both are the ones the command found.
C17_SwitchReplacesContextAndSession ==
    /\ cmd.pc \in {"prompt", "restore"} => soul = cmd.before.soul
    /\ SessionEnded =>
          IF Switched
          THEN /\ soul.context.file_backend = soul.session.history_file
               /\ soul.context
                     = Restore(fs, Context(soul.session.history_file))
               /\ SessionOf(soul.context) = soul.session.id
               /\ LastSessionId(metaDoc, KIMI_WORK_DIR) = Some(soul.session.id)
          ELSE soul = trace.before.soul

\* The app has been switched from s1, whose context held messages, to s2.
C17_Witness ==
    /\ SessionEnded
    /\ Switched
    /\ trace.before.soul.session.id = S1
    /\ History(trace.before.soul.context) # <<>>
    /\ soul.session.id = S2
    /\ SessionOf(soul.context) = S2

\* The init command has ended.
InitEnded == trace.cmd = "init"

\* C18 as stated: however init ends, the analysis having returned ok or not
\* ok or having raised, app.soul is the soul that was there before, on the
\* context of the session and not on the temporary one.
C18_InitRestoresSoul ==
    InitEnded =>
        /\ soul.session = trace.before.soul.session
        /\ soul.context.file_backend = trace.before.soul.context.file_backend
        /\ soul.context.file_backend # TempFile

====
